---- MODULE Spec2Model ----
(***************************************************************************)
(* Layout / position / paint passes of the HStack and ZStack container     *)
(* widgets of anathema-widgets (hstack.rs, zstack.rs).                     *)
(*                                                                         *)
(* A container owns four optional sizing attributes and an ordered list of *)
(* children.  layout() tightens the incoming constraints with the declared *)
(* attributes and delegates to a stacking strategy, position() places the  *)
(* children, paint() (ZStack) draws them into one shared region.           *)
(***************************************************************************)
EXTENDS Integers, Sequences, FiniteSets, TLC

VARIABLES kind, widget, incoming, children, constraints, childCons, size,
          origin, repeated, surface, pc

\* repeated is a history variable: the last position() call had the same
\* ctx.pos as the call before it
vars == <<kind, widget, incoming, children, constraints, childCons, size,
          origin, repeated, surface, pc>>

(***************************************************************************)
(* Bounds of the explored instances.                                       *)
(***************************************************************************)
\* largest declared attribute value / constraint bound that is enumerated
MaxDim == 3
\* longest enumerated child list
MaxChildren == 3
\* widest enumerated child (natural width)
MaxChildW == 3
\* tallest enumerated child (natural height)
MaxChildH == 2
\* largest enumerated origin coordinate
MaxOrigin == 1
\* painted surface, in cells
SurfW == 4
SurfH == 2

(***************************************************************************)
(* Values taken from the unit tests.                                       *)
(***************************************************************************)
\* columns / rows of the fake terminal of hstack.rs test::only_hstack
WindowW == 15
WindowH == 5
\* outer width and height of border(text(i)), the child of the hstack tests
BorderW == 3
BorderH == 3
\* test::fixed_width_stack: width attribute and number of children
FixedWidth == 6
FixedCount == 10
\* test::only_hstack: number of children
OnlyCount == 3

(***************************************************************************)
(* Option<usize> / Value<usize>: the empty set is None / Value::Empty,     *)
(* a singleton is Some(v).                                                 *)
(***************************************************************************)
None == {}
Some(v) == {v}
Unwrap(o) == CHOOSE v \in o : TRUE

Min(a, b) == IF a <= b THEN a ELSE b
Max(a, b) == IF a >= b THEN a ELSE b

ZeroSize == [width |-> 0, height |-> 0]
ZeroPos == [x |-> 0, y |-> 0]

\* all constraints with bounds in 0..n and min <= max on both axes
ConsUpTo(n) ==
    { [min_width |-> a, max_width |-> b, min_height |-> c, max_height |-> d] :
        a \in 0..n, b \in 0..n, c \in 0..n, d \in 0..n }

WellFormed(c) == c.min_width <= c.max_width /\ c.min_height <= c.max_height

WindowCons ==
    [min_width |-> 0, max_width |-> WindowW, min_height |-> 0, max_height |-> WindowH]

(***************************************************************************)
(* HStack::layout, lines 68-79: fixed size first, minimum second.          *)
(***************************************************************************)
HStackConstraints_UnsetIsZero(w, c) ==
    LET width == IF w.width # None THEN Unwrap(w.width) ELSE 0
        height == IF w.height # None THEN Unwrap(w.height) ELSE 0
        min_width == IF w.min_width # None THEN Unwrap(w.min_width) ELSE 0
        min_height == IF w.min_height # None THEN Unwrap(w.min_height) ELSE 0
    IN [min_width |-> Max(c.min_width, min_width),
        max_width |-> Min(c.max_width, width),
        min_height |-> Max(c.min_height, min_height),
        max_height |-> Min(c.max_height, height)]

HStackConstraints_MinCapped(w, c) ==
    LET c1 == IF w.width # None
              THEN [c EXCEPT !.max_width = Min(c.max_width, Unwrap(w.width))] ELSE c
        c2 == IF w.height # None
              THEN [c1 EXCEPT !.max_height = Min(c1.max_height, Unwrap(w.height))] ELSE c1
        c3 == IF w.min_width # None
              THEN [c2 EXCEPT !.min_width =
                        Min(Max(c2.min_width, Unwrap(w.min_width)), c2.max_width)]
              ELSE c2
        c4 == IF w.min_height # None
              THEN [c3 EXCEPT !.min_height =
                        Min(Max(c3.min_height, Unwrap(w.min_height)), c3.max_height)]
              ELSE c3
    IN c4

HStackConstraints_WidthAssigned(w, c) ==
    LET c1 == IF w.width # None THEN [c EXCEPT !.max_width = Unwrap(w.width)] ELSE c
        c2 == IF w.height # None THEN [c1 EXCEPT !.max_height = Unwrap(w.height)] ELSE c1
        c3 == IF w.min_width # None
              THEN [c2 EXCEPT !.min_width = Max(c2.min_width, Unwrap(w.min_width))] ELSE c2
        c4 == IF w.min_height # None
              THEN [c3 EXCEPT !.min_height = Max(c3.min_height, Unwrap(w.min_height))] ELSE c3
    IN c4

HStackConstraints(w, c) ==
    LET c1 == IF w.width # None
              THEN [c EXCEPT !.max_width = Min(c.max_width, Unwrap(w.width))] ELSE c
        c2 == IF w.height # None
              THEN [c1 EXCEPT !.max_height = Min(c1.max_height, Unwrap(w.height))] ELSE c1
        c3 == IF w.min_width # None
              THEN [c2 EXCEPT !.min_width = Max(c2.min_width, Unwrap(w.min_width))] ELSE c2
        c4 == IF w.min_height # None
              THEN [c3 EXCEPT !.min_height = Max(c3.min_height, Unwrap(w.min_height))] ELSE c3
    IN c4

(***************************************************************************)
(* Constraints::make_width_tight / make_height_tight: the tighten-max      *)
(* operation of the constraints arithmetic.                                *)
(***************************************************************************)
make_width_tight(c, width) == [c EXCEPT !.max_width = Min(c.max_width, width)]
make_height_tight(c, height) == [c EXCEPT !.max_height = Min(c.max_height, height)]

(***************************************************************************)
(* ZStack::layout, lines 81-92: minimum first, fixed size second.          *)
(***************************************************************************)
ZStackConstraints(w, c) ==
    LET c1 == IF w.min_width # None
              THEN [c EXCEPT !.min_width = Max(c.min_width, Unwrap(w.min_width))] ELSE c
        c2 == IF w.min_height # None
              THEN [c1 EXCEPT !.min_height = Max(c1.min_height, Unwrap(w.min_height))] ELSE c1
        c3 == IF w.width # None THEN make_width_tight(c2, Unwrap(w.width)) ELSE c2
        c4 == IF w.height # None THEN make_height_tight(c3, Unwrap(w.height)) ELSE c3
    IN c4

(***************************************************************************)
(* Children.  A child is a leaf with a natural size w x h and a glyph; the *)
(* layout pass stores its size, the position pass its position.            *)
(***************************************************************************)
Child(w, h) == [w |-> w, h |-> h, size |-> ZeroSize, pos |-> ZeroPos]

\* glyph of the i-th inserted child: text(i) of the tests, counted from 0
Glyph(i) == ToString(i - 1)
Blank == " "

\* Widget::layout of a leaf child: its natural size cut down to the
\* constraints' max bounds, the empty size when there is no room at all
ChildLayout(child, cons) ==
    IF cons.max_width = 0 \/ cons.max_height = 0
    THEN ZeroSize
    ELSE [width |-> Min(child.w, cons.max_width),
          height |-> Min(child.h, cons.max_height)]

\* clamp v into [lo, hi]; the min floor wins when lo > hi
Clamp(v, lo, hi) == Max(lo, Min(v, hi))

RECURSIVE SumWidth(_, _)
SumWidth(ch, n) == IF n = 0 THEN 0 ELSE SumWidth(ch, n - 1) + ch[n].size.width

RECURSIVE MaxWidth(_, _)
MaxWidth(ch, n) == IF n = 0 THEN 0 ELSE Max(MaxWidth(ch, n - 1), ch[n].size.width)

RECURSIVE MaxHeight(_, _)
MaxHeight(ch, n) == IF n = 0 THEN 0 ELSE Max(MaxHeight(ch, n - 1), ch[n].size.height)

(***************************************************************************)
(* Horizontal strategy (Direction::Forward): every child gets the width    *)
(* left over by its prior siblings, zero once the width is used up.        *)
(***************************************************************************)
Remaining(cons, used) == IF used >= cons.max_width THEN 0 ELSE cons.max_width - used

HorizontalChildCons(cons, used) ==
    LET budget == Remaining(cons, used)
    IN [min_width |-> Min(cons.min_width, budget),
        max_width |-> budget,
        min_height |-> Min(cons.min_height, cons.max_height),
        max_height |-> cons.max_height]

Horizontal(cons, ch) ==
    LET n == Len(ch)
        used[i \in 0..n] ==
            IF i = 0 THEN 0
            ELSE used[i - 1] + ChildLayout(ch[i], HorizontalChildCons(cons, used[i - 1])).width
        cc == [i \in 1..n |-> HorizontalChildCons(cons, used[i - 1])]
        laid == [i \in 1..n |-> [ch[i] EXCEPT !.size = ChildLayout(ch[i], cc[i])]]
    IN [children |-> laid,
        childCons |-> cc,
        size |-> [width |-> Clamp(used[n], cons.min_width, cons.max_width),
                  height |-> Clamp(MaxHeight(laid, n), cons.min_height, cons.max_height)]]

(***************************************************************************)
(* Stacked strategy: every child gets the same, full constraints.          *)
(***************************************************************************)
Stacked(cons, ch) ==
    LET n == Len(ch)
        cc == [i \in 1..n |-> cons]
        laid == [i \in 1..n |-> [ch[i] EXCEPT !.size = ChildLayout(ch[i], cc[i])]]
    IN [children |-> laid,
        childCons |-> cc,
        size |-> [width |-> Clamp(MaxWidth(laid, n), cons.min_width, cons.max_width),
                  height |-> Clamp(MaxHeight(laid, n), cons.min_height, cons.max_height)]]

\* HStack::layout line 81 / ZStack::layout line 94: the strategy delegated to
HStackStrategy_Stacked(cons, ch) == Stacked(cons, ch)
ZStackStrategy_Horizontal(cons, ch) == Horizontal(cons, ch)

HStackStrategy(cons, ch) == Horizontal(cons, ch)
ZStackStrategy(cons, ch) == Stacked(cons, ch)

(***************************************************************************)
(* Position pass.                                                          *)
(***************************************************************************)
\* WidgetContainer::position: the child records where it was put
ChildPosition(child, pos) == [child EXCEPT !.pos = pos]
\* WidgetContainer::outer_size
OuterSize(child) == child.size

HStack_position_Drift(ch, ctxPos) ==
    LET n == Len(ch)
        start == IF n = 0 THEN ctxPos.x ELSE ch[1].pos.x + ctxPos.x
        x[i \in 1..n] == IF i = 1 THEN start ELSE x[i - 1] + OuterSize(ch[i - 1]).width
    IN [i \in 1..n |-> ChildPosition(ch[i], [x |-> x[i], y |-> ctxPos.y])]

HStack_position_AddBefore(ch, ctxPos) ==
    LET n == Len(ch)
        x[i \in 1..n] ==
            IF i = 1 THEN ctxPos.x + OuterSize(ch[1]).width
            ELSE x[i - 1] + OuterSize(ch[i]).width
    IN [i \in 1..n |-> ChildPosition(ch[i], [x |-> x[i], y |-> ctxPos.y])]

\* HStack::position: pos starts at ctx.pos, each child is placed at pos and
\* pos.x then grows by that child's outer width
HStack_position(ch, ctxPos) ==
    LET n == Len(ch)
        x[i \in 1..n] == IF i = 1 THEN ctxPos.x ELSE x[i - 1] + OuterSize(ch[i - 1]).width
    IN [i \in 1..n |-> ChildPosition(ch[i], [x |-> x[i], y |-> ctxPos.y])]

\* ZStack::position: every child at ctx.pos
ZStack_position(ch, ctxPos) == [i \in 1..Len(ch) |-> ChildPosition(ch[i], ctxPos)]

(***************************************************************************)
(* Paint pass of ZStack.                                                   *)
(***************************************************************************)
Cells == (0..(SurfW - 1)) \X (0..(SurfH - 1))
BlankSurface == [c \in Cells |-> Blank]

Covers(child, c) ==
    /\ child.pos.x <= c[1] /\ c[1] < child.pos.x + child.size.width
    /\ child.pos.y <= c[2] /\ c[2] < child.pos.y + child.size.height

\* WidgetContainer::paint of the i-th child: its glyph on every cell of its
\* rectangle that lies on the surface
ChildPaint(child, i, surf) ==
    [c \in Cells |-> IF Covers(child, c) THEN Glyph(i) ELSE surf[c]]

ZStack_paint_Reversed(ch, surf) ==
    LET n == Len(ch)
        s[i \in 0..n] ==
            IF i = 0 THEN surf ELSE ChildPaint(ch[n + 1 - i], n + 1 - i, s[i - 1])
    IN s[n]

\* ZStack::paint: the children in slice order, each into sub_context(None)
ZStack_paint(ch, surf) ==
    LET n == Len(ch)
        s[i \in 0..n] == IF i = 0 THEN surf ELSE ChildPaint(ch[i], i, s[i - 1])
    IN s[n]

(***************************************************************************)
(* Enumerated instances.                                                   *)
(***************************************************************************)
Attr(n) == {None} \cup {Some(v) : v \in 0..n}

Widgets(n) == [width : Attr(n), height : Attr(n), min_width : Attr(n), min_height : Attr(n)]

NoAttrs == [width |-> None, height |-> None, min_width |-> None, min_height |-> None]

\* widgets of the stacking instances: a fixed width and / or a minimum
StackWidgets ==
    { [NoAttrs EXCEPT !.width = w, !.min_width = m, !.min_height = m] :
        w \in {None, Some(MaxDim), Some(FixedWidth)}, m \in {None, Some(MaxDim)} }

StackIncoming ==
    {WindowCons} \cup
    { [min_width |-> 0, max_width |-> b, min_height |-> 0, max_height |-> MaxChildH] :
        b \in {0, MaxDim, MaxChildW + 1} }

ChildKinds == { Child(w, h) : w \in {1, MaxChildW}, h \in {1, MaxChildH} }

ChildLists == UNION { [1..n -> ChildKinds] : n \in 0..MaxChildren }

Borders(n) == [i \in 1..n |-> Child(BorderW, BorderH)]

\* test::place_on_top: text("000"), text("11"), text("2")
Texts == <<Child(3, 1), Child(2, 1), Child(1, 1)>>

Origins == { [x |-> x, y |-> y] : x \in {-1, 0, MaxOrigin}, y \in {0, MaxOrigin} }

Kinds == {"HStack", "ZStack"}

InitCommon ==
    /\ kind \in Kinds
    /\ constraints = incoming
    /\ childCons = << >>
    /\ size = ZeroSize
    /\ origin = ZeroPos
    /\ repeated = FALSE
    /\ surface = BlankSurface
    /\ pc = "new"

\* stacking instances: many child lists, few attribute sets
Init ==
    /\ widget \in StackWidgets
    /\ incoming \in StackIncoming
    /\ children \in ChildLists \cup {Borders(OnlyCount), Borders(FixedCount), Texts}
    /\ InitCommon

\* constraint instances: every attribute set and every well-formed incoming
\* constraints, one child
InitCons ==
    /\ widget \in Widgets(MaxDim)
    /\ incoming \in {c \in ConsUpTo(MaxDim) : WellFormed(c)}
    /\ children = <<Child(1, 1)>>
    /\ InitCommon

(***************************************************************************)
(* Actions: one per Widget method.                                         *)
(***************************************************************************)
HStackLayout ==
    /\ kind = "HStack" /\ pc = "new"
    /\ LET c == HStackConstraints(widget, incoming)
           r == HStackStrategy(c, children)
       IN /\ constraints' = c
          /\ children' = r.children
          /\ childCons' = r.childCons
          /\ size' = r.size
    /\ pc' = "laidout"
    /\ UNCHANGED <<kind, widget, incoming, origin, repeated, surface>>

ZStackLayout ==
    /\ kind = "ZStack" /\ pc = "new"
    /\ LET c == ZStackConstraints(widget, incoming)
           r == ZStackStrategy(c, children)
       IN /\ constraints' = c
          /\ children' = r.children
          /\ childCons' = r.childCons
          /\ size' = r.size
    /\ pc' = "laidout"
    /\ UNCHANGED <<kind, widget, incoming, origin, repeated, surface>>

HStackPosition ==
    /\ kind = "HStack" /\ pc \in {"laidout", "positioned"}
    /\ \E o \in Origins :
          /\ origin' = o
          /\ repeated' = (pc = "positioned" /\ o = origin)
          /\ children' = HStack_position(children, o)
    /\ pc' = "positioned"
    /\ UNCHANGED <<kind, widget, incoming, constraints, childCons, size, surface>>

ZStackPosition ==
    /\ kind = "ZStack" /\ pc \in {"laidout", "positioned"}
    /\ \E o \in Origins :
          /\ origin' = o
          /\ repeated' = (pc = "positioned" /\ o = origin)
          /\ children' = ZStack_position(children, o)
    /\ pc' = "positioned"
    /\ UNCHANGED <<kind, widget, incoming, constraints, childCons, size, surface>>

ZStackPaint ==
    /\ kind = "ZStack" /\ pc = "positioned"
    /\ surface' = ZStack_paint(children, surface)
    /\ pc' = "painted"
    /\ UNCHANGED <<kind, widget, incoming, children, constraints, childCons, size,
                   origin, repeated>>

Next ==
    \/ HStackLayout
    \/ ZStackLayout
    \/ HStackPosition
    \/ ZStackPosition
    \/ ZStackPaint

Spec == Init /\ [][Next]_vars

\* the layout pass alone, over the constraint instances
NextLayout ==
    \/ HStackLayout
    \/ ZStackLayout

SpecCons == InitCons /\ [][NextLayout]_vars

(***************************************************************************)
(* Properties.                                                             *)
(***************************************************************************)
LaidOut == pc # "new"
N == Len(children)

\* index of the last-inserted child covering cell c, 0 when none does
TopChild(c) ==
    LET S == {i \in 1..N : Covers(children[i], c)}
    IN IF S = {} THEN 0 ELSE CHOOSE i \in S : \A j \in S : j <= i

IsTexts ==
    /\ N = 3
    /\ children[1].size = [width |-> 3, height |-> 1]
    /\ children[2].size = [width |-> 2, height |-> 1]
    /\ children[3].size = [width |-> 1, height |-> 1]

\* C1: after ZStack.paint every cell shows the glyph of the last-inserted
\* child covering it (cells no child covers stay blank), so cells a later,
\* smaller child does not write keep the glyph of the latest earlier child;
\* "000", "11", "2" at one origin read "210".
C1_LastInsertedWins ==
    pc = "painted" =>
        /\ \A c \in Cells :
              surface[c] = IF TopChild(c) = 0 THEN Blank ELSE Glyph(TopChild(c))
        /\ (IsTexts /\ origin = ZeroPos) =>
              <<surface[<<0, 0>>], surface[<<1, 0>>], surface[<<2, 0>>]>> = <<"2", "1", "0">>

C1_Witness ==
    /\ pc = "painted" /\ IsTexts /\ origin = ZeroPos
    /\ surface[<<0, 0>>] = "2" /\ surface[<<1, 0>>] = "1" /\ surface[<<2, 0>>] = "0"

IsBorders(n) ==
    /\ N = n
    /\ \A i \in 1..N : children[i].size = [width |-> BorderW, height |-> BorderH]

\* C2: HStack.position places child i at x = origin.x + the outer widths of
\* the children before it and at y = origin.y; three children of width 3
\* at origin x = 0 sit at 0, 3, 6 and the window-constrained stack is 9 wide.
C2_AccumulatingOffsets ==
    (kind = "HStack" /\ pc = "positioned") =>
        /\ \A i \in 1..N :
              /\ children[i].pos.x = origin.x + SumWidth(children, i - 1)
              /\ children[i].pos.y = origin.y
        /\ (IsBorders(OnlyCount) /\ origin.x = 0) =>
              /\ [i \in 1..N |-> children[i].pos.x] = <<0, 3, 6>>
              /\ (widget = NoAttrs /\ incoming = WindowCons) => size.width = 9

C2_Witness ==
    /\ kind = "HStack" /\ pc = "positioned"
    /\ IsBorders(OnlyCount) /\ origin.x = 0 /\ origin.y = MaxOrigin
    /\ children[3].pos = [x |-> 6, y |-> MaxOrigin]
    /\ size.width = 9

\* C3 as stated: the children's widths sum to at most the original
\* max_width and the returned height is the maximum of the children's heights.
C3_HeightIsMaxChildHeight ==
    (kind = "HStack" /\ LaidOut) =>
        /\ SumWidth(children, N) <= incoming.max_width
        /\ size.height = MaxHeight(children, N)

\* C3, amended: the children's widths sum to at most the max_width handed to
\* the strategy, itself at most the incoming max_width, and the returned
\* height is the maximum of the children's heights, or min_height when that
\* is larger.
C3_HeightIsClampedMaxChildHeight ==
    (kind = "HStack" /\ LaidOut) =>
        /\ SumWidth(children, N) <= constraints.max_width
        /\ constraints.max_width <= incoming.max_width
        /\ size.height = Max(constraints.min_height, MaxHeight(children, N))

C3_Witness ==
    /\ kind = "HStack" /\ LaidOut /\ N >= 2
    /\ SumWidth(children, N) = constraints.max_width
    /\ children[N].size.width > 0
    /\ constraints.min_height > MaxHeight(children, N)
    /\ size.height = constraints.min_height

\* C4 as stated: with a declared width w <= incoming max_width the handed
\* constraints have max_width = w and min_width <= w (same for height), and
\* no max bound is raised above its incoming value.
C4_FixedSizeTightens ==
    LaidOut =>
        /\ \A w \in widget.width :
              w <= incoming.max_width =>
                  constraints.max_width = w /\ constraints.min_width <= w
        /\ \A h \in widget.height :
              h <= incoming.max_height =>
                  constraints.max_height = h /\ constraints.min_height <= h
        /\ constraints.max_width <= incoming.max_width
        /\ constraints.max_height <= incoming.max_height

\* C5 as stated: well-formed incoming constraints stay well-formed
\* (min <= max on both axes) when handed to the strategy, and a declared
\* minimum above the declared fixed size clamps the max up to the min.
C5_HandedConstraintsConsistent ==
    (LaidOut /\ WellFormed(incoming)) =>
        /\ WellFormed(constraints)
        /\ \A w \in widget.width : \A m \in widget.min_width :
              m > w => constraints.max_width = constraints.min_width
        /\ \A h \in widget.height : \A m \in widget.min_height :
              m > h => constraints.max_height = constraints.min_height

\* C6: in an HStack every child gets max_width = the container's max_width
\* less the width of its prior siblings; once that width is used up every
\* further child gets a zero budget and an empty size; width = 6 with ten
\* children of width 3 leaves exactly the first two non-empty.
C6_RemainingBudget ==
    (kind = "HStack" /\ LaidOut) =>
        /\ \A i \in 1..N :
              LET used == SumWidth(children, i - 1)
              IN /\ used <= constraints.max_width
                 /\ childCons[i].max_width = constraints.max_width - used
                 /\ used >= constraints.max_width =>
                        childCons[i].max_width = 0 /\ children[i].size = ZeroSize
        /\ (widget.width = Some(FixedWidth) /\ N = FixedCount /\ incoming = WindowCons
               /\ \A i \in 1..N : children[i].w = BorderW) =>
              {i \in 1..N : children[i].size # ZeroSize} = {1, 2}

C6_Witness ==
    /\ kind = "HStack" /\ LaidOut
    /\ widget.width = Some(FixedWidth) /\ N = FixedCount /\ incoming = WindowCons
    /\ children[2].size.width = BorderW
    /\ childCons[2].max_width = 3
    /\ childCons[3].max_width = 0 /\ children[FixedCount].size = ZeroSize

\* C7 as stated: every ZStack child gets the same full constraints and the
\* returned size is the maximum child width by the maximum child height.
C7_SizeIsMaxChildSize ==
    (kind = "ZStack" /\ LaidOut) =>
        /\ \A i \in 1..N : childCons[i] = constraints
        /\ size.width = MaxWidth(children, N)
        /\ size.height = MaxHeight(children, N)

\* C7, amended: every ZStack child gets the same full constraints and the
\* returned size is the maximum child width by the maximum child height,
\* each raised to the min bound of its axis when that is larger.
C7_SizeIsClampedMaxChildSize ==
    (kind = "ZStack" /\ LaidOut) =>
        /\ \A i \in 1..N : childCons[i] = constraints
        /\ size.width = Max(constraints.min_width, MaxWidth(children, N))
        /\ size.height = Max(constraints.min_height, MaxHeight(children, N))

C7_Witness ==
    /\ kind = "ZStack" /\ LaidOut /\ N >= 2
    /\ children[1].size.width < children[2].size.width
    /\ children[1].size.height > children[2].size.height
    /\ childCons[1] = childCons[2]
    /\ size = [width |-> children[2].size.width, height |-> constraints.min_height]
    /\ constraints.min_height > children[1].size.height

\* C8: a position(origin) call that repeats the origin of the call before it
\* leaves every child where the first call put it.
C8_PositionIdempotent ==
    [][repeated' => children' = children]_vars

C8_Witness ==
    /\ repeated /\ kind = "HStack" /\ pc = "positioned" /\ N >= 2
    /\ origin.x # 0
    /\ children[2].pos.x > children[1].pos.x

====
